---- MODULE Spec2Model ----
(***************************************************************************)
(* Model of the temperature-control firmware in src/main.c (MSP430G2x53):  *)
(* the polling control loop of main(), the buzzer routine buzz(), the      *)
(* digit renderer write_4digit()/inject_7seg() and the bit-serial display  *)
(* driver write_7seg().  The program is compiled with                      *)
(* READ_VOLTAGE_OR_DEG = 1 and TEMP_THRESHOLD_TOGGLE = 1, so the branches  *)
(* that call degree_conv() are not part of the build.                      *)
(*                                                                         *)
(* Program counters are named after the source line they stand at.         *)
(***************************************************************************)
EXTENDS Integers, Sequences, FiniteSets, TLC

(* ---------------------------------------------------------------------- *)
(* Bounds of the model (not program constants)                             *)
(* ---------------------------------------------------------------------- *)

\* Presses are modelled while the press counter is below MaxPresses (or at
\* the last value before the 16-bit counter wraps).
MaxPresses == 4

\* The threshold branch is modelled while the buzz counter is below
\* MaxBuzzCtr (or at the last value before the 16-bit counter wraps).
MaxBuzzCtr == 7

\* Step count on the potentiometer channel P1.5 (held fixed), and the step
\* counts the primary channel P1.3 moves between: equal to the
\* potentiometer's, and above it.
RawPot == 500
RawPrimary == {RawPot, RawPot + 100}

(* ---------------------------------------------------------------------- *)
(* Program constants                                                       *)
(* ---------------------------------------------------------------------- *)

BUZZER_LIMIT == 5
BEEP_TIME == 1500
SOUND_DELAY == 20
WAIT_TIME == 200
EMPTY_X == 10

\* BEEP_TIME*TIMER_MOD_COEFF expands to 1500*1/(2*20), evaluated left to
\* right in int arithmetic.
BEEP_TIME_MOD == (BEEP_TIME * 1) \div (2 * SOUND_DELAY)

\* unsigned int and int are 16 bits wide on the MSP430.
UINT_MOD == 2 ^ 16
INT_MIN == -(2 ^ 15)
INT_MAX == (2 ^ 15) - 1
UINT_MAX == UINT_MOD - 1

\* VOLTAGE_COEFF 2.96, as hundredths.
VOLTAGE_COEFF_X100 == 296

\* Port bits used by the program.
BUTTON_BIT == 2
LED_BIT == 1
BUZZ_BITS == 65
sck == 8
rck == 16

\* The 7-segment table index[11], order of bits 0bABCDEFGP.
index ==
  <<252, 96, 218, 242, 102, 182, 190, 224, 254, 246, 0>>

(* ---------------------------------------------------------------------- *)
(* Arithmetic as the C code computes it                                    *)
(* ---------------------------------------------------------------------- *)

\* C integer division truncates toward zero.
CDiv(a, b) == IF a >= 0 THEN a \div b ELSE -((-a) \div b)

\* C remainder has the sign of the dividend.
CRem(a, b) == a - b * CDiv(a, b)

\* Conversion of an int to unsigned int.
ToUInt(x) == x % UINT_MOD

\* unsigned int increment.
UInc(x) == (x + 1) % UINT_MOD

RECURSIVE BitAndN(_, _, _)
BitAndN(x, y, n) ==
  IF n = 0 THEN 0
  ELSE (IF x % 2 = 1 /\ y % 2 = 1 THEN 1 ELSE 0)
       + 2 * BitAndN(x \div 2, y \div 2, n - 1)

BitAnd(x, y) == BitAndN(x, y, 8)

BitOr(x, y) == x + y - BitAnd(x, y)

BitClear(x, y) == x - BitAnd(x, y)

(* ---------------------------------------------------------------------- *)
(* State                                                                   *)
(* ---------------------------------------------------------------------- *)

VARIABLES
  \* main(): position and locals
  pc, button, button_ctr, buzz_ctr, reading, reading_pot,
  \* buzz(): loop counter i
  bz_i,
  \* inject_7seg(): arguments d_1..d_4, loop counter i, next position
  inj_d, inj_i, inj_pos,
  \* write_4digit(): argument number; the delay argument its caller (or
  \* the caller of inject_7seg) passes
  number, delay_arg,
  \* write_7seg(): position, locals and parameters; the arguments
  \* <<data, index>> of the current call as they were passed
  w_pc, w_i, w_data, w_index, w_bit, w_args,
  \* peripherals: P2IN & 0x02, P1OUT, P2OUT, the ADC10 core and its
  \* transfer controller, the sample buffer, the primary analog input
  P2IN, P1OUT, P2OUT, adcBusy, adcPos, p1_samples, ain,
  \* the pattern last latched for each display position (-1: none yet)
  shown,
  \* history: bits seen on the data line at each rising shift-clock edge
  \* and rising register-clock edges, in the current write_7seg call
  clocked, latches,
  \* history of the current loop iteration: buzz() was called, a
  \* conversion was triggered, the buffer was read, a value read was not
  \* written by this iteration's conversion, buzz_ctr at its start
  fired, sampled, bufRead, stale, ctr_in,
  \* history: buzzer firings since the last NORMAL iteration that did not
  \* exceed the threshold; the latest button press ("none", "down",
  \* "down_busy", "counted", "lost", "lost_busy")
  firedInRun, press,
  \* history: calls of inject_7seg made by the current loop iteration
  renders

mainLocals == <<pc, button, button_ctr, buzz_ctr, reading, reading_pot>>
injVars == <<inj_d, inj_i, inj_pos, renders>>
w4dArgs == <<number, delay_arg>>
w7Vars == <<w_pc, w_i, w_data, w_index, w_bit, w_args, clocked, latches>>
adcVars == <<adcBusy, adcPos, p1_samples>>
iterHist == <<fired, sampled, bufRead, stale, ctr_in>>

vars == <<pc, button, button_ctr, buzz_ctr, reading, reading_pot, bz_i,
          inj_d, inj_i, inj_pos, number, delay_arg, w_pc, w_i, w_data,
          w_index, w_bit, w_args, P2IN, P1OUT, P2OUT, adcBusy, adcPos, p1_samples, ain, shown,
          clocked, latches, fired, sampled, bufRead, stale, ctr_in,
          firedInRun, press, renders>>

(* ---------------------------------------------------------------------- *)
(* Pure parts of the program                                               *)
(* ---------------------------------------------------------------------- *)

NORMAL == 0
POTENTIOMETER == 1
OFF == 2

\* button_ctr % 3, the mode tested at lines 106 and 126.
Mode(ctr) == ctr % 3

\* The formats a build of the program can give `double`: IEEE 754 binary64,
\* or binary32 (MSP430 compilers whose double is as wide as float).
DoubleFormats == {"binary64", "binary32"}

\* Significands are held in three limbs of 18 bits: <<a, b, c>> stands for
\* a * 2^36 + b * 2^18 + c.
LIMB == 2 ^ 18

\* Variant of VOLTAGE_COEFF with the experimental coefficient 2.95.
VOLTAGE_COEFF_EXPER(fmt) ==
  IF fmt = "binary64"
    THEN [m |-> <<96665, 157286, 104858>>, frac |-> 51, sig |-> 53]
    ELSE [m |-> <<0, 47, 52429>>, frac |-> 22, sig |-> 24]

\* The literal 2.96 rounded to the nearest value of the format: its
\* significand m of `sig` bits, the value being m * 2^-frac.
VOLTAGE_COEFF(fmt) ==
  IF fmt = "binary64"
    THEN [m |-> <<96993, 73400, 83886>>, frac |-> 51, sig |-> 53]
    ELSE [m |-> <<0, 47, 94372>>, frac |-> 22, sig |-> 24]

\* The number of bits of x >= 0.
RECURSIVE BitLen(_)
BitLen(x) == IF x = 0 THEN 0 ELSE 1 + BitLen(x \div 2)

\* (int)(n * c) for an int 0 <= n < 2^13 and a floating-point constant c:
\* the exact product n * m is rounded to `sig` significant bits (to
\* nearest, ties to even) and the result truncated to its integer part.
MulToInt(n, c) ==
  LET t0 == n * c.m[3]
      p0 == t0 % LIMB
      t1 == n * c.m[2] + t0 \div LIMB
      p1 == t1 % LIMB
      p2 == n * c.m[1] + t1 \div LIMB
      len == IF p2 > 0 THEN 36 + BitLen(p2)
             ELSE IF p1 > 0 THEN 18 + BitLen(p1)
             ELSE BitLen(p0)
      k == IF len > c.sig THEN len - c.sig ELSE 0
      low == p0 % (2 ^ k)
      up == /\ k > 0
            /\ \/ 2 * low > 2 ^ k
               \/ 2 * low = 2 ^ k /\ (p0 \div (2 ^ k)) % 2 = 1
      q0 == p0 - low + (IF up THEN 2 ^ k ELSE 0)
      q1 == p1 + q0 \div LIMB
      q2 == p2 + q1 \div LIMB
  IN IF c.frac >= 36
       THEN q2 \div (2 ^ (c.frac - 36))
       ELSE q2 * (2 ^ (36 - c.frac)) + (q1 % LIMB) \div (2 ^ (c.frac - 18))

\* voltage = reading * VOLTAGE_COEFF (lines 122-123) as write_4digit gets
\* it: the double converted to int at the call, in a build of format fmt.
VoltageIn(fmt, r) == MulToInt(r, VOLTAGE_COEFF(fmt))

\* The values the builds of the program give for reading r.
Voltage(r) == {VoltageIn(fmt, r) : fmt \in DoubleFormats}

\* Variant of ShouldBuzz that also buzzes at the threshold itself.
ShouldBuzzInclusive(r, rp, ctr) == r >= rp /\ ctr < BUZZER_LIMIT

\* The condition of line 138 (TEMP_THRESHOLD_TOGGLE is 1).
ShouldBuzz(r, rp, ctr) == r > rp /\ ctr < BUZZER_LIMIT

\* Variant of NextBuzzCtr that stops counting at BUZZER_LIMIT.
NextBuzzCtrSaturating(r, rp, ctr) ==
  IF r > rp
    THEN (IF ctr < BUZZER_LIMIT THEN ctr + 1 ELSE BUZZER_LIMIT)
    ELSE 0

\* Variant of NextBuzzCtr that resets the counter only below BUZZER_LIMIT.
NextBuzzCtrLatching(r, rp, ctr) ==
  IF r > rp THEN UInc(ctr)
  ELSE IF ctr < BUZZER_LIMIT THEN 0
  ELSE ctr

\* buzz_ctr after lines 138-143.
NextBuzzCtr(r, rp, ctr) ==
  IF ShouldBuzz(r, rp, ctr) THEN UInc(ctr)
  ELSE IF r > rp THEN UInc(ctr)
  ELSE 0

\* Variant of Write4Digit whose hundreds digit lacks the % 10.
Write4DigitWide(n) ==
  <<ToUInt(CRem(CDiv(n, 1000), 10)),
    ToUInt(CDiv(n, 100)),
    ToUInt(CRem(CDiv(n, 10), 10)),
    ToUInt(CRem(n, 10))>>

\* The four digits write_4digit hands to inject_7seg: <<d_1, d_2, d_3, d_4>>.
Write4Digit(n) ==
  <<ToUInt(CRem(CDiv(n, 1000), 10)),
    ToUInt(CRem(CDiv(n, 100), 10)),
    ToUInt(CRem(CDiv(n, 10), 10)),
    ToUInt(CRem(n, 10))>>

\* int i = delay*0.4 in inject_7seg.
DwellCount(delay) == (delay * 4) \div 10

\* Variant of IndexRead that reads the table one entry too low.
IndexReadOneLow(d) == IF d < 11 THEN {index[IF d = 0 THEN 1 ELSE d]} ELSE 0..255

\* The values a read of index[d] can give: the table entry, or for d
\* outside the table whatever follows it in memory (its low byte is all
\* write_7seg uses).
IndexRead(d) == IF d < 11 THEN {index[d + 1]} ELSE 0..255

\* The digit inject_7seg writes at display position p (4: d_1 ... 1: d_4).
DigitAt(d, p) == d[5 - p]

\* The analog input the ADC samples for buffer entry k (0: P1.5, 1: P1.4,
\* 2: P1.3).
AnalogIn(k, a) == IF k = 0 THEN RawPot ELSE IF k = 2 THEN a ELSE 0

(* ---------------------------------------------------------------------- *)
(* main(): the control loop, lines 96-153                                  *)
(* ---------------------------------------------------------------------- *)

\* A counter value at which the model still follows the counter.
Within(c, max) == c < max \/ c = UINT_MAX

\* Entry of inject_7seg(d_1, d_2, d_3, d_4, delay): i = delay*0.4 and the
\* loop test; with no pass to make, control returns to the loop head (both
\* `continue` and the end of the loop body lead to line 98).
CallInject(d, delay) ==
  /\ renders' = renders + 1
  /\ inj_d' = d
  /\ inj_i' = DwellCount(delay)
  /\ inj_pos' = 4
  /\ pc' = IF DwellCount(delay) > 0 THEN "L195" ELSE "L98"

\* Call of write_4digit(n, WAIT_TIME) from main(): lines 180-185.
CallWrite4Digit(n) ==
  /\ number' = n
  /\ delay_arg' = WAIT_TIME
  /\ CallInject(Write4Digit(n), WAIT_TIME)

\* Lines 98-101: read P2.1; a low pin counts one press.  A new loop
\* iteration starts here.
ButtonSense ==
  /\ pc = "L98"
  /\ button' = P2IN
  /\ button_ctr' = IF P2IN = 0 THEN UInc(button_ctr) ELSE button_ctr
  /\ press' = IF P2IN = 0 THEN "counted" ELSE press
  /\ pc' = "L102"
  /\ fired' = FALSE
  /\ sampled' = FALSE
  /\ bufRead' = FALSE
  /\ stale' = FALSE
  /\ ctr_in' = buzz_ctr
  /\ renders' = 0
  /\ UNCHANGED <<buzz_ctr, reading, reading_pot, bz_i, inj_d, inj_i, inj_pos,
                 w4dArgs, w7Vars, P2IN, P1OUT, P2OUT, adcVars, ain, shown,
                 firedInRun>>

\* Variant of ButtonWait with `if` in place of `while`: one wait, then on.
ButtonWaitOnce ==
  /\ pc = "L102"
  /\ pc' = "L106"
  /\ UNCHANGED <<button, button_ctr, buzz_ctr, reading, reading_pot, bz_i,
                 injVars, w4dArgs, w7Vars, P2IN, P1OUT, P2OUT, adcVars, ain,
                 shown, iterHist, firedInRun, press>>

\* Lines 102-105: while the button was read low, wait and read it again.
ButtonWait ==
  /\ pc = "L102"
  /\ IF button = 0
       THEN button' = P2IN /\ pc' = "L102"
       ELSE button' = button /\ pc' = "L106"
  /\ UNCHANGED <<button_ctr, buzz_ctr, reading, reading_pot, bz_i, injVars,
                 w4dArgs, w7Vars, P2IN, P1OUT, P2OUT, adcVars, ain, shown,
                 iterHist, firedInRun, press>>

\* Lines 106-109: in OFF mode inject four blanks and restart the loop.
ModeDispatch ==
  /\ pc = "L106"
  /\ IF Mode(button_ctr) = OFF
       THEN CallInject(<<EMPTY_X, EMPTY_X, EMPTY_X, EMPTY_X>>, WAIT_TIME)
       ELSE pc' = "L112" /\ UNCHANGED injVars
  /\ UNCHANGED <<button, button_ctr, buzz_ctr, reading, reading_pot, bz_i,
                 w4dArgs, w7Vars, P2IN, P1OUT, P2OUT, adcVars, ain, shown,
                 iterHist, firedInRun, press>>

\* Lines 112-113: clear ENC and wait until the ADC10 core is not busy.
AdcWait ==
  /\ pc = "L112"
  /\ ~adcBusy
  /\ pc' = "L114"
  /\ UNCHANGED <<button, button_ctr, buzz_ctr, reading, reading_pot, bz_i,
                 injVars, w4dArgs, w7Vars, P2IN, P1OUT, P2OUT, adcVars, ain,
                 shown, iterHist, firedInRun, press>>

\* Lines 114-116: set the transfer start address (0x200, the base of RAM
\* where p1_samples lies), light P1.0 and start sampling and conversion.
\* The program does not wait for the conversion here.
AdcStart ==
  /\ pc = "L114"
  /\ P1OUT' = BitOr(P1OUT, LED_BIT)
  /\ adcBusy' = TRUE
  /\ adcPos' = 0
  /\ sampled' = TRUE
  /\ pc' = "L119"
  /\ UNCHANGED <<button, button_ctr, buzz_ctr, reading, reading_pot, bz_i,
                 injVars, w4dArgs, w7Vars, P2IN, P2OUT, p1_samples, ain,
                 shown, fired, bufRead, stale, ctr_in, firedInRun, press>>

\* Line 119: reading = p1_samples[2].
ReadPrimary ==
  /\ pc = "L119"
  /\ reading' = p1_samples[2]
  /\ bufRead' = TRUE
  /\ stale' = (stale \/ adcPos <= 2)
  /\ pc' = "L120"
  /\ UNCHANGED <<button, button_ctr, buzz_ctr, reading_pot, bz_i, injVars,
                 w4dArgs, w7Vars, P2IN, P1OUT, P2OUT, adcVars, ain, shown,
                 fired, sampled, ctr_in, firedInRun, press>>

\* Line 120: reading_pot = p1_samples[0].
ReadPot ==
  /\ pc = "L120"
  /\ reading_pot' = p1_samples[0]
  /\ bufRead' = TRUE
  /\ stale' = (stale \/ adcPos <= 0)
  /\ pc' = "L121"
  /\ UNCHANGED <<button, button_ctr, buzz_ctr, reading, bz_i, injVars,
                 w4dArgs, w7Vars, P2IN, P1OUT, P2OUT, adcVars, ain, shown,
                 fired, sampled, ctr_in, firedInRun, press>>

\* Variant of PotMode that clears the buzz counter when the primary reading
\* is not above the threshold.
PotModeResets ==
  /\ pc = "L121"
  /\ P1OUT' = BitClear(P1OUT, LED_BIT)
  /\ buzz_ctr' = IF reading > reading_pot THEN buzz_ctr ELSE 0
  /\ IF Mode(button_ctr) = POTENTIOMETER
       THEN \E v \in Voltage(reading_pot) : CallWrite4Digit(v)
       ELSE pc' = "L138" /\ UNCHANGED <<injVars, w4dArgs>>
  /\ UNCHANGED <<button, button_ctr, reading, reading_pot, bz_i,
                 w7Vars, P2IN, P2OUT, adcVars, ain, shown, iterHist,
                 firedInRun, press>>

\* Variant of PotMode that renders the primary voltage in POTENTIOMETER
\* mode.
PotModeShowsPrimary ==
  /\ pc = "L121"
  /\ P1OUT' = BitClear(P1OUT, LED_BIT)
  /\ IF Mode(button_ctr) = POTENTIOMETER
       THEN \E v \in Voltage(reading) : CallWrite4Digit(v)
       ELSE pc' = "L138" /\ UNCHANGED <<injVars, w4dArgs>>
  /\ UNCHANGED <<button, button_ctr, buzz_ctr, reading, reading_pot, bz_i,
                 w7Vars, P2IN, P2OUT, adcVars, ain, shown, iterHist,
                 firedInRun, press>>

\* Lines 121-135: clear P1.0, scale both readings; in POTENTIOMETER mode
\* render the potentiometer's voltage and restart the loop.
PotMode ==
  /\ pc = "L121"
  /\ P1OUT' = BitClear(P1OUT, LED_BIT)
  /\ IF Mode(button_ctr) = POTENTIOMETER
       THEN \E v \in Voltage(reading_pot) : CallWrite4Digit(v)
       ELSE pc' = "L138" /\ UNCHANGED <<injVars, w4dArgs>>
  /\ UNCHANGED <<button, button_ctr, buzz_ctr, reading, reading_pot, bz_i,
                 w7Vars, P2IN, P2OUT, adcVars, ain, shown, iterHist,
                 firedInRun, press>>

\* Lines 138-152 without a call of buzz(): update buzz_ctr and render the
\* primary voltage; with one: enter buzz().
ThresholdStep ==
  /\ pc = "L138"
  /\ IF ShouldBuzz(reading, reading_pot, buzz_ctr)
       THEN /\ bz_i' = BEEP_TIME_MOD
            /\ pc' = IF BEEP_TIME_MOD > 0 THEN "L171" ELSE "L140"
            /\ fired' = TRUE
            /\ firedInRun' = firedInRun + 1
            /\ UNCHANGED <<buzz_ctr, injVars, w4dArgs>>
       ELSE /\ buzz_ctr' = NextBuzzCtr(reading, reading_pot, buzz_ctr)
            /\ \E v \in Voltage(reading) : CallWrite4Digit(v)
            /\ firedInRun' = IF reading > reading_pot THEN firedInRun ELSE 0
            /\ UNCHANGED <<bz_i, fired>>
  /\ UNCHANGED <<button, button_ctr, reading, reading_pot, w7Vars,
                 P2IN, P1OUT, P2OUT, adcVars, ain, shown, sampled, bufRead,
                 stale, ctr_in, press>>

\* ThresholdStep as long as the model follows the buzz counter.
ThresholdControl ==
  /\ Within(buzz_ctr, MaxBuzzCtr) \/ ~(reading > reading_pot)
  /\ ThresholdStep

\* buzz(), line 171 (and the delay of 172): P1.0 and P1.6 high.
BuzzOn ==
  /\ pc = "L171"
  /\ P1OUT' = BitOr(P1OUT, BUZZ_BITS)
  /\ pc' = "L173"
  /\ UNCHANGED <<button, button_ctr, buzz_ctr, reading, reading_pot, bz_i,
                 injVars, w4dArgs, w7Vars, P2IN, P2OUT, adcVars, ain, shown,
                 iterHist, firedInRun, press>>

\* Variant of BuzzOff whose loop never counts down.
BuzzOffForever ==
  /\ pc = "L173"
  /\ P1OUT' = BitClear(P1OUT, BUZZ_BITS)
  /\ pc' = "L171"
  /\ UNCHANGED <<button, button_ctr, buzz_ctr, reading, reading_pot, bz_i,
                 injVars, w4dArgs, w7Vars, P2IN, P2OUT, adcVars, ain, shown,
                 iterHist, firedInRun, press>>

\* buzz(), lines 173-175: P1.0 and P1.6 low, delay, next pulse or return.
BuzzOff ==
  /\ pc = "L173"
  /\ P1OUT' = BitClear(P1OUT, BUZZ_BITS)
  /\ bz_i' = bz_i - 1
  /\ pc' = IF bz_i - 1 > 0 THEN "L171" ELSE "L140"
  /\ UNCHANGED <<button, button_ctr, buzz_ctr, reading, reading_pot,
                 injVars, w4dArgs, w7Vars, P2IN, P2OUT, adcVars, ain, shown,
                 iterHist, firedInRun, press>>

\* Lines 140-152 after buzz() returned: count the buzz and render the
\* primary voltage.
BuzzReturn ==
  /\ pc = "L140"
  /\ buzz_ctr' = NextBuzzCtr(reading, reading_pot, buzz_ctr)
  /\ \E v \in Voltage(reading) : CallWrite4Digit(v)
  /\ UNCHANGED <<button, button_ctr, reading, reading_pot, bz_i,
                 w7Vars, P2IN, P1OUT, P2OUT, adcVars, ain, shown, iterHist,
                 firedInRun, press>>

\* inject_7seg(), lines 194-203: one call write_7seg(index[d], p) of the
\* current pass (the call leaves the register clock high and latches the
\* pattern for position p); after position 1 the pass counter goes down.
InjectWrite ==
  /\ pc = "L195"
  /\ \E data \in IndexRead(DigitAt(inj_d, inj_pos)) :
       shown' = [shown EXCEPT ![inj_pos] = data]
  /\ P2OUT' = rck
  /\ IF inj_pos > 1
       THEN inj_pos' = inj_pos - 1 /\ UNCHANGED <<inj_i, pc>>
       ELSE /\ inj_pos' = 4
            /\ inj_i' = inj_i - 1
            /\ pc' = IF inj_i - 1 > 0 THEN "L195" ELSE "L98"
  /\ UNCHANGED <<button, button_ctr, buzz_ctr, reading, reading_pot, bz_i,
                 inj_d, renders, w4dArgs, w7Vars, P2IN, P1OUT, adcVars, ain,
                 iterHist, firedInRun, press>>

(* ---------------------------------------------------------------------- *)
(* The environment of main(): button S101, the analog input, the ADC10     *)
(* ---------------------------------------------------------------------- *)

\* The controller is in the display dwell of inject_7seg or in buzz().
Busy == pc \in {"L195", "L171", "L173"}

\* S101 is pressed: P2.1 goes low.
Press ==
  /\ P2IN = BUTTON_BIT
  /\ Within(button_ctr, MaxPresses)
  /\ P2IN' = 0
  /\ press' = IF Busy THEN "down_busy" ELSE "down"
  /\ UNCHANGED <<mainLocals, bz_i, injVars, w4dArgs, w7Vars, P1OUT, P2OUT,
                 adcVars, ain, shown, iterHist, firedInRun>>

\* S101 is released: P2.1 goes high.  A press that was never read low by
\* line 98 is lost ("lost_busy": it began and ended while the controller
\* was busy).
Release ==
  /\ P2IN = 0
  /\ P2IN' = BUTTON_BIT
  /\ press' = IF press = "down_busy" /\ Busy THEN "lost_busy"
              ELSE IF press \in {"down", "down_busy"} THEN "lost"
              ELSE press
  /\ UNCHANGED <<mainLocals, bz_i, injVars, w4dArgs, w7Vars, P1OUT, P2OUT,
                 adcVars, ain, shown, iterHist, firedInRun>>

\* The voltage on P1.3 changes.
AnalogChange ==
  /\ \E a \in RawPrimary \ {ain} : ain' = a
  /\ UNCHANGED <<mainLocals, bz_i, injVars, w4dArgs, w7Vars, P2IN, P1OUT,
                 P2OUT, adcVars, shown, iterHist, firedInRun, press>>

\* The ADC10 (sequence of channels from A5 down, ADC10DTC1 = 3) finishes
\* one channel and transfers the result to the next buffer entry.
AdcTransfer ==
  /\ adcBusy
  /\ adcPos < 3
  /\ p1_samples' = [p1_samples EXCEPT ![adcPos] = AnalogIn(adcPos, ain)]
  /\ adcPos' = adcPos + 1
  /\ UNCHANGED <<mainLocals, bz_i, injVars, w4dArgs, w7Vars, P2IN, P1OUT,
                 P2OUT, adcBusy, ain, shown, iterHist, firedInRun, press>>

\* The sequence is over: the core leaves the busy state.
AdcDone ==
  /\ adcBusy
  /\ adcPos = 3
  /\ adcBusy' = FALSE
  /\ UNCHANGED <<mainLocals, bz_i, injVars, w4dArgs, w7Vars, P2IN, P1OUT,
                 P2OUT, adcPos, p1_samples, ain, shown, iterHist,
                 firedInRun, press>>

\* The values port 2's output register can hold at reset (the program never
\* initialises P2OUT): any combination of data, shift clock and register
\* clock.
P2Reset == {d + c + r : d \in {0, 1}, c \in {0, sck}, r \in {0, rck}}

\* Lines 77-94: locals are zero, P1.0 and P1.6 cleared, the button
\* released, the ADC idle with the buffer {0,0,0}; nothing has been shown.
Constructed ==
  /\ button = 0
  /\ button_ctr = 0
  /\ buzz_ctr = 0
  /\ reading = 0
  /\ reading_pot = 0
  /\ bz_i = 0
  /\ inj_d = <<0, 0, 0, 0>>
  /\ inj_i = 0
  /\ inj_pos = 4
  /\ w_pc = "idle"
  /\ w_i = 0
  /\ w_data = 0
  /\ w_index = 0
  /\ w_bit = 0
  /\ w_args = <<0, 0>>
  /\ P2IN = BUTTON_BIT
  /\ P1OUT = 0
  /\ adcBusy = FALSE
  /\ adcPos = 0
  /\ p1_samples = [k \in 0..2 |-> 0]
  /\ shown = [p \in 1..4 |-> -1]
  /\ clocked = <<>>
  /\ latches = 0
  /\ fired = FALSE
  /\ sampled = FALSE
  /\ bufRead = FALSE
  /\ stale = FALSE
  /\ ctr_in = 0
  /\ firedInRun = 0
  /\ press = "none"
  /\ renders = 0

\* The state in which the loop of main() is entered.
Init ==
  /\ Constructed
  /\ pc = "L98"
  /\ number = 0
  /\ delay_arg = WAIT_TIME
  /\ P2OUT \in P2Reset
  /\ ain \in RawPrimary

Next ==
  \/ ButtonSense
  \/ ButtonWait
  \/ ModeDispatch
  \/ AdcWait
  \/ AdcStart
  \/ ReadPrimary
  \/ ReadPot
  \/ PotMode
  \/ ThresholdControl
  \/ BuzzOn
  \/ BuzzOff
  \/ BuzzReturn
  \/ InjectWrite
  \/ Press
  \/ Release
  \/ AnalogChange
  \/ AdcTransfer
  \/ AdcDone

Spec == Init /\ [][Next]_vars

(* ---------------------------------------------------------------------- *)
(* write_7seg(data, index), lines 207-254, one write of P2OUT per step     *)
(* ---------------------------------------------------------------------- *)

\* A write of v to P2OUT.  The shift registers take the data line (P2.0) at
\* a rising edge of the shift clock (P2.3) and latch at a rising edge of
\* the register clock (P2.4); both are recorded.
WriteP2OUT(v) ==
  /\ P2OUT' = v
  /\ clocked' = IF BitAnd(v, sck) # 0 /\ BitAnd(P2OUT, sck) = 0
                  THEN Append(clocked, BitAnd(v, 1))
                  ELSE clocked
  /\ latches' = IF BitAnd(v, rck) # 0 /\ BitAnd(P2OUT, rck) = 0
                  THEN latches + 1
                  ELSE latches

\* The digit-select bit of lines 223-237: 1 when index == 1.
SelectBit(idx) == IF idx = 1 THEN 1 ELSE 0

\* bit = data & 1, line 242.
DataBit(data) == BitAnd(data, 1)

\* Variant of ShiftData that shifts left within the byte.
ShiftDataLeft(data) == (data * 2) % 256

\* data = data >> 1, line 249.
ShiftData(data) == data \div 2

mainFrame == <<mainLocals, bz_i, injVars, w4dArgs, P2IN, P1OUT, adcVars, ain,
               shown, iterHist, firedInRun, press>>
w7Frame == <<w_args, mainFrame>>

\* A call write_7seg(data, index) with a pattern byte and a position.
W7Call ==
  /\ w_pc \in {"idle", "ret"}
  /\ \E data \in 0..255, idx \in 1..4 :
       /\ w_data' = data
       /\ w_index' = idx
       /\ w_args' = <<data, idx>>
  /\ w_bit' = 0
  /\ w_i' = 4
  /\ w_pc' = "L213"
  /\ clocked' = <<>>
  /\ latches' = 0
  /\ UNCHANGED <<P2OUT, mainFrame>>

\* Line 213: P2OUT = 0.
W7ZeroLow ==
  /\ w_pc = "L213"
  /\ WriteP2OUT(0)
  /\ w_pc' = "L215"
  /\ UNCHANGED <<w_i, w_data, w_index, w_bit, w7Frame>>

\* Line 215: P2OUT = sck.
W7ZeroHigh ==
  /\ w_pc = "L215"
  /\ WriteP2OUT(sck)
  /\ w_pc' = "L217"
  /\ UNCHANGED <<w_i, w_data, w_index, w_bit, w7Frame>>

\* Variant of W7ZeroEnd whose loop test lets a fifth zero bit through.
W7ZeroEndOneMore ==
  /\ w_pc = "L217"
  /\ WriteP2OUT(0)
  /\ IF w_i > 0
       THEN w_i' = w_i - 1 /\ w_pc' = "L213"
       ELSE w_i' = 4 /\ w_pc' = "L223"
  /\ UNCHANGED <<w_data, w_index, w_bit, w7Frame>>

\* Lines 217-219: P2OUT = 0, next of the 4 zero bits or on to line 221.
W7ZeroEnd ==
  /\ w_pc = "L217"
  /\ WriteP2OUT(0)
  /\ IF w_i - 1 > 0
       THEN w_i' = w_i - 1 /\ w_pc' = "L213"
       ELSE w_i' = 4 /\ w_pc' = "L223"
  /\ UNCHANGED <<w_data, w_index, w_bit, w7Frame>>

\* Lines 223-224 / 231: P2OUT = 1 for the operated digit, else 0.
W7SelLow ==
  /\ w_pc = "L223"
  /\ WriteP2OUT(SelectBit(w_index))
  /\ w_pc' = "L226"
  /\ UNCHANGED <<w_i, w_data, w_index, w_bit, w7Frame>>

\* Lines 226 / 233: P2OUT = sck | select bit.
W7SelHigh ==
  /\ w_pc = "L226"
  /\ WriteP2OUT(BitOr(sck, SelectBit(w_index)))
  /\ w_pc' = "L228"
  /\ UNCHANGED <<w_i, w_data, w_index, w_bit, w7Frame>>

\* Lines 228 / 235 and 238-239: clock low, index = index - 1, next of the
\* 4 select bits or on to line 241.
W7SelEnd ==
  /\ w_pc = "L228"
  /\ WriteP2OUT(SelectBit(w_index))
  /\ w_index' = w_index - 1
  /\ IF w_i - 1 > 0
       THEN w_i' = w_i - 1 /\ w_pc' = "L223"
       ELSE w_i' = 8 /\ w_pc' = "L242"
  /\ UNCHANGED <<w_data, w_bit, w7Frame>>

\* Lines 242-244: bit = data & 1; P2OUT = bit.
W7DataLow ==
  /\ w_pc = "L242"
  /\ w_bit' = DataBit(w_data)
  /\ WriteP2OUT(DataBit(w_data))
  /\ w_pc' = "L245"
  /\ UNCHANGED <<w_i, w_data, w_index, w7Frame>>

\* Variant of W7DataHigh that raises the shift clock without the bit.
W7DataHighBare ==
  /\ w_pc = "L245"
  /\ WriteP2OUT(sck)
  /\ w_pc' = "L247"
  /\ UNCHANGED <<w_i, w_data, w_index, w_bit, w7Frame>>

\* Line 245: P2OUT = sck | bit.
W7DataHigh ==
  /\ w_pc = "L245"
  /\ WriteP2OUT(BitOr(sck, w_bit))
  /\ w_pc' = "L247"
  /\ UNCHANGED <<w_i, w_data, w_index, w_bit, w7Frame>>

\* Lines 247-250: P2OUT = bit; data >>= 1; next of the 8 data bits or on
\* to line 252.
W7DataEnd ==
  /\ w_pc = "L247"
  /\ WriteP2OUT(w_bit)
  /\ w_data' = ShiftData(w_data)
  /\ IF w_i - 1 > 0
       THEN w_i' = w_i - 1 /\ w_pc' = "L242"
       ELSE w_i' = 0 /\ w_pc' = "L252"
  /\ UNCHANGED <<w_index, w_bit, w7Frame>>

\* Lines 252-254: P2OUT = rck, and return.
W7Latch ==
  /\ w_pc = "L252"
  /\ WriteP2OUT(rck)
  /\ w_pc' = "ret"
  /\ UNCHANGED <<w_i, w_data, w_index, w_bit, w7Frame>>

Next7Seg ==
  \/ W7Call
  \/ W7ZeroLow
  \/ W7ZeroHigh
  \/ W7ZeroEnd
  \/ W7SelLow
  \/ W7SelHigh
  \/ W7SelEnd
  \/ W7DataLow
  \/ W7DataHigh
  \/ W7DataEnd
  \/ W7Latch

\* write_7seg called again and again with any pattern byte and position.
Spec7Seg == Init /\ [][Next7Seg]_vars

(* ---------------------------------------------------------------------- *)
(* write_4digit(number, delay), lines 179-186, for every int               *)
(* ---------------------------------------------------------------------- *)

\* A caller about to call write_4digit with any int.
InitW4D ==
  /\ Constructed
  /\ pc = "L179"
  /\ number \in INT_MIN..INT_MAX
  /\ delay_arg = WAIT_TIME
  /\ P2OUT = 0
  /\ ain = RawPot

\* Lines 180-185: the digits are computed and handed to inject_7seg with
\* WAIT_TIME (the delay parameter is not used).
W4DCall ==
  /\ pc = "L179"
  /\ CallInject(Write4Digit(number), WAIT_TIME)
  /\ UNCHANGED <<button, button_ctr, buzz_ctr, reading, reading_pot, bz_i,
                 w4dArgs, w7Vars, P2IN, P1OUT, P2OUT, adcVars, ain, shown,
                 iterHist, firedInRun, press>>

NextW4D == W4DCall

SpecW4D == InitW4D /\ [][NextW4D]_vars

(* ---------------------------------------------------------------------- *)
(* write_4digit and inject_7seg called with a delay of the caller's choice *)
(* ---------------------------------------------------------------------- *)

\* A delay other than WAIT_TIME.
ShortDelay == 10

\* Digits a caller hands to inject_7seg: four blanks (line 107), 1 4 8 0.
InjectArgs == {<<EMPTY_X, EMPTY_X, EMPTY_X, EMPTY_X>>, <<1, 4, 8, 0>>}

\* A caller about to call write_4digit(number, delay_arg) (line 179) or
\* inject_7seg(d_1, d_2, d_3, d_4, delay_arg) (line 189).
InitInject ==
  /\ Constructed
  /\ P2OUT = 0
  /\ ain = RawPot
  /\ delay_arg \in {WAIT_TIME, ShortDelay}
  /\ \/ pc = "L179" /\ number \in {0, 7, 1480, 9999}
     \/ pc = "L189" /\ number = 0

\* Lines 189-194: inject_7seg is entered with the caller's digits and
\* delay.
InjectCall ==
  /\ pc = "L189"
  /\ \E d \in InjectArgs : CallInject(d, delay_arg)
  /\ UNCHANGED <<button, button_ctr, buzz_ctr, reading, reading_pot, bz_i,
                 w4dArgs, w7Vars, P2IN, P1OUT, P2OUT, adcVars, ain, shown,
                 iterHist, firedInRun, press>>

NextInject ==
  \/ W4DCall
  \/ InjectCall
  \/ InjectWrite

SpecInject == InitInject /\ [][NextInject]_vars

(* ---------------------------------------------------------------------- *)
(* The control loop next to the wrap of its 16-bit counters                *)
(* ---------------------------------------------------------------------- *)

\* The patterns on the display after a reading n has been rendered.
ShownOf(n) == [p \in 1..4 |-> index[DigitAt(Write4Digit(n), p) + 1]]

\* The loop head after a NORMAL iteration that read primary r against
\* potentiometer RawPot and took its conversion's results afterwards.
AfterNormal(r) ==
  /\ pc = "L98"
  /\ button = BUTTON_BIT
  /\ P2IN = BUTTON_BIT
  /\ reading = r
  /\ reading_pot = RawPot
  /\ bz_i = 0
  /\ number \in Voltage(r)
  /\ delay_arg = WAIT_TIME
  /\ inj_d = Write4Digit(number)
  /\ inj_i = 0
  /\ inj_pos = 4
  /\ renders = 1
  /\ w_pc = "idle"
  /\ w_i = 0
  /\ w_data = 0
  /\ w_index = 0
  /\ w_bit = 0
  /\ w_args = <<0, 0>>
  /\ P1OUT = 0
  /\ P2OUT = rck
  /\ adcBusy = FALSE
  /\ adcPos = 3
  /\ p1_samples = [k \in 0..2 |-> AnalogIn(k, r)]
  /\ ain = r
  /\ shown = ShownOf(number)
  /\ clocked = <<>>
  /\ latches = 0
  /\ fired = FALSE
  /\ sampled = TRUE
  /\ bufRead = TRUE
  /\ stale = TRUE

\* Two states the loop reaches: UINT_MAX presses counted, the last
\* iteration below the threshold; and no press, with the primary above the
\* threshold for the last UINT_MAX iterations.
InitWrap ==
  \/ /\ AfterNormal(RawPot)
     /\ button_ctr = UINT_MAX
     /\ buzz_ctr = 0
     /\ ctr_in = 0
     /\ firedInRun = 0
     /\ press = "counted"
  \/ /\ AfterNormal(RawPot + 100)
     /\ button_ctr = 0
     /\ buzz_ctr = UINT_MAX
     /\ ctr_in = UINT_MAX - 1
     /\ firedInRun = BUZZER_LIMIT
     /\ press = "none"

SpecWrap == InitWrap /\ [][Next]_vars

(* ---------------------------------------------------------------------- *)
(* One loop iteration for every step count of the 10-bit converter         *)
(* ---------------------------------------------------------------------- *)

\* The largest result of the ADC10.
ADC_MAX == 2 ^ 10 - 1

\* The loop at the mode test of line 106 after an earlier iteration: in
\* any of the three modes, the buzz counter at 0 or at its limit, the
\* conversion over and the buffer holding its results: any step count on
\* one of the two channels used and RawPot on the other.
InitVolt ==
  /\ pc = "L106"
  /\ button = BUTTON_BIT
  /\ P2IN = BUTTON_BIT
  /\ button_ctr \in {NORMAL, POTENTIOMETER, OFF}
  /\ buzz_ctr \in {0, BUZZER_LIMIT}
  /\ ctr_in = buzz_ctr
  /\ firedInRun = buzz_ctr
  /\ press = IF button_ctr = 0 THEN "none" ELSE "counted"
  /\ \E r \in 0..ADC_MAX :
       \/ p1_samples = [k \in 0..2 |-> IF k = 2 THEN r ELSE AnalogIn(k, r)]
       \/ p1_samples = [k \in 0..2 |-> IF k = 0 THEN r ELSE AnalogIn(k, RawPot)]
  /\ ain = p1_samples[2]
  /\ reading = 0
  /\ reading_pot = 0
  /\ bz_i = 0
  /\ inj_d = <<EMPTY_X, EMPTY_X, EMPTY_X, EMPTY_X>>
  /\ inj_i = 0
  /\ inj_pos = 4
  /\ renders = 0
  /\ number = 0
  /\ delay_arg = WAIT_TIME
  /\ w_pc = "idle"
  /\ w_i = 0
  /\ w_data = 0
  /\ w_index = 0
  /\ w_bit = 0
  /\ w_args = <<0, 0>>
  /\ P1OUT = 0
  /\ P2OUT = rck
  /\ adcBusy = FALSE
  /\ adcPos = 3
  /\ shown = [p \in 1..4 |-> 0]
  /\ clocked = <<>>
  /\ latches = 0
  /\ fired = FALSE
  /\ sampled = FALSE
  /\ bufRead = FALSE
  /\ stale = FALSE

\* The rest of the iteration, up to the loop head.
NextVolt ==
  \/ ModeDispatch
  \/ AdcWait
  \/ AdcStart
  \/ ReadPrimary
  \/ ReadPot
  \/ PotMode
  \/ ThresholdControl
  \/ BuzzOn
  \/ BuzzOff
  \/ BuzzReturn
  \/ InjectWrite

SpecVolt == InitVolt /\ [][NextVolt]_vars

(* ---------------------------------------------------------------------- *)
(* The control loop running forever                                        *)
(* ---------------------------------------------------------------------- *)

\* A transfer of the ADC10 in an environment that lets the primary input
\* stay above the threshold only so long: once buzz_ctr has reached
\* MaxBuzzCtr the input has dropped to RawPot when P1.3 is sampled.
LiveAdcTransfer ==
  /\ adcBusy
  /\ adcPos < 3
  /\ ain' = IF adcPos = 2 /\ buzz_ctr >= MaxBuzzCtr THEN RawPot ELSE ain
  /\ p1_samples' = [p1_samples EXCEPT ![adcPos] = AnalogIn(adcPos, ain')]
  /\ adcPos' = adcPos + 1
  /\ UNCHANGED <<mainLocals, bz_i, injVars, w4dArgs, w7Vars, P2IN, P1OUT,
                 P2OUT, adcBusy, shown, iterHist, firedInRun, press>>

\* The steps of the program: the processor executes main() and what it
\* calls.
MainStep ==
  \/ ButtonSense
  \/ ButtonWait
  \/ ModeDispatch
  \/ AdcWait
  \/ AdcStart
  \/ ReadPrimary
  \/ ReadPot
  \/ PotMode
  \/ ThresholdStep
  \/ BuzzOn
  \/ BuzzOff
  \/ BuzzReturn
  \/ InjectWrite

InitLive ==
  /\ Constructed
  /\ pc = "L98"
  /\ number = 0
  /\ delay_arg = WAIT_TIME
  /\ P2OUT = 0
  /\ ain \in RawPrimary

NextLive ==
  \/ MainStep
  \/ Press
  \/ Release
  \/ LiveAdcTransfer
  \/ AdcDone

\* The processor keeps executing; the wait of lines 102-105 polls the pin
\* every WAIT_TIME cycles, so a button that keeps being released is read
\* high; a pressed button is released; a conversion under way goes on to
\* its end.
FairLive ==
  /\ WF_vars(MainStep)
  /\ SF_vars(ButtonWait)
  /\ WF_vars(Release)
  /\ WF_vars(LiveAdcTransfer)
  /\ WF_vars(AdcDone)

SpecLive == InitLive /\ [][NextLive]_vars /\ FairLive

(* ---------------------------------------------------------------------- *)
(* Properties                                                              *)
(* ---------------------------------------------------------------------- *)

\* Program positions at which the iteration's buzz decision has been taken
\* (rendering) or the iteration is over (loop head).
Decided == pc \in {"L195", "L98"}

\* Bit k of byte b.
BitOf(b, k) == (b \div (2 ^ k)) % 2

\* The display positions the current injection has already written.
WrittenSoFar ==
  IF pc = "L98" \/ inj_i < DwellCount(WAIT_TIME)
    THEN 1..4
    ELSE {p \in 1..4 : p > inj_pos}

\* C1: every counted press moves the mode (press counter mod 3, starting
\* at NORMAL) to its successor in the cycle NORMAL -> POTENTIOMETER -> OFF
\* -> NORMAL, never skipping a mode and never staying or going back.
C1_PressAdvancesMode ==
  [][button_ctr' # button_ctr =>
       Mode(button_ctr') = (Mode(button_ctr) + 1) % 3]_vars

\* C2: the buzzer fires in an iteration exactly when the iteration is in
\* NORMAL mode, the primary step count is strictly above the potentiometer
\* step count and the buzz counter before the iteration is below
\* BUZZER_LIMIT; the buzzer pin P1.6 is high only in such an iteration.
C2_BuzzerFiresExactlyWhen ==
  LET due == /\ Mode(button_ctr) = NORMAL
             /\ reading > reading_pot
             /\ ctr_in < BUZZER_LIMIT
  IN /\ fired => due
     /\ BitAnd(P1OUT, 64) # 0 => fired
     /\ (Decided /\ due) => fired

\* C2 witness: a NORMAL iteration has fired the buzzer and is rendering,
\* after earlier iterations of the same run already counted.
C2_Witness ==
  /\ pc = "L195"
  /\ fired
  /\ Mode(button_ctr) = NORMAL
  /\ ctr_in = BUZZER_LIMIT - 1

\* C3 as claimed: the buzz counter always lies in [0, BUZZER_LIMIT], and
\* after a NORMAL iteration above the threshold it is
\* min(previous counter + 1, BUZZER_LIMIT).
C3_CounterSaturates ==
  /\ buzz_ctr \in 0..BUZZER_LIMIT
  /\ (Decided /\ Mode(button_ctr) = NORMAL /\ reading > reading_pot) =>
       buzz_ctr = (IF ctr_in + 1 < BUZZER_LIMIT THEN ctr_in + 1
                   ELSE BUZZER_LIMIT)

\* C3 as amended: the buzz counter lies in [0, 2^16 - 1] and is not held
\* at BUZZER_LIMIT: after a NORMAL iteration above the threshold it is
\* (previous counter + 1) mod 2^16, whether or not the buzzer fired.
C3_CounterKeepsCounting ==
  /\ buzz_ctr \in 0..UINT_MAX
  /\ (Decided /\ Mode(button_ctr) = NORMAL /\ reading > reading_pot) =>
       buzz_ctr = (ctr_in + 1) % UINT_MOD

\* C3 witness: a NORMAL iteration above the threshold has taken the
\* counter past BUZZER_LIMIT without firing.
C3_Witness ==
  /\ pc = "L195"
  /\ Mode(button_ctr) = NORMAL
  /\ reading > reading_pot
  /\ ~fired
  /\ ctr_in = BUZZER_LIMIT
  /\ buzz_ctr = BUZZER_LIMIT + 1

\* C4: in an unbroken run of NORMAL iterations above the threshold the
\* buzzer fires at most BUZZER_LIMIT times, however long the run lasts; it
\* fires again only after a NORMAL iteration at or below the threshold.
C4_SilentAfterLimit == firedInRun <= BUZZER_LIMIT

\* C5: an OFF iteration goes from the mode test straight to the injection
\* of four blanks: every position it writes shows 0b00000000 whatever the
\* analog input and the buffer hold, and it triggers no conversion, reads
\* no sample and does not fire the buzzer.
C5_OffModeBlank ==
  Mode(button_ctr) = OFF =>
    /\ pc \in {"L98", "L102", "L106", "L195"}
    /\ ~sampled /\ ~bufRead /\ ~fired
    /\ pc = "L195" => inj_d = <<EMPTY_X, EMPTY_X, EMPTY_X, EMPTY_X>>
    /\ pc \in {"L195", "L98"} => \A p \in WrittenSoFar : shown[p] = 0

\* C5 witness: an OFF iteration is over with the display blank while the
\* primary input and the buffer hold a reading above the threshold.
C5_Witness ==
  /\ pc = "L98"
  /\ Mode(button_ctr) = OFF
  /\ \A p \in 1..4 : shown[p] = 0
  /\ ain > RawPot
  /\ p1_samples[2] > p1_samples[0]

\* C6: for every int N the four digits write_4digit hands to inject_7seg
\* are in [0,9] and are (|N|/1000)%10, (|N|/100)%10, (|N|/10)%10, |N|%10.
C6_DigitsOfMagnitude ==
  pc = "L195" =>
    LET m == IF number < 0 THEN -number ELSE number
    IN /\ \A k \in 1..4 : inj_d[k] \in 0..9
       /\ inj_d = <<(m \div 1000) % 10, (m \div 100) % 10,
                    (m \div 10) % 10, m % 10>>

\* C7: write_7seg(b, p) clocks out the data bits of b with bit 0 first and
\* bit 7 last (shift pulses 9..16), and of the four digit-select bits
\* (shift pulses 5..8) exactly the p-th is 1.
C7_BitOrder ==
  w_pc = "ret" =>
    /\ \A k \in 0..7 : clocked[9 + k] = BitOf(w_args[1], k)
    /\ \A j \in 1..4 : clocked[4 + j] = (IF j = w_args[2] THEN 1 ELSE 0)

\* C7 witness: the pattern of digit 2 (0b11011010) has been written to
\* position 3.
C7_Witness ==
  /\ w_pc = "ret"
  /\ w_args = <<218, 3>>
  /\ clocked = <<0, 0, 0, 0,  0, 0, 1, 0,  0, 1, 0, 1, 1, 0, 1, 1>>

\* C8: a call of write_7seg makes exactly 16 shift pulses, 4 zero bits,
\* then the 4 select bits, then the 8 segment bits, and then raises the
\* register clock exactly once; the register clock is not raised before
\* the 16th pulse is over and is not high while a bit is being shifted.
C8_SixteenThenLatch ==
  /\ w_pc = "ret" =>
       /\ Len(clocked) = 16
       /\ latches = 1
       /\ \A k \in 1..4 : clocked[k] = 0
  /\ w_pc # "ret" => latches = 0
  /\ w_pc \in {"L213", "L215", "L217"} => Len(clocked) <= 4
  /\ w_pc \in {"L223", "L226", "L228"} => Len(clocked) \in 4..8
  /\ w_pc \in {"L242", "L245", "L247"} => Len(clocked) \in 8..16
  /\ w_pc = "L252" => Len(clocked) = 16 /\ BitAnd(P2OUT, sck) = 0
  /\ BitAnd(P2OUT, rck) # 0 =>
       \/ w_pc \in {"idle", "ret"}
       \/ w_pc = "L213" /\ clocked = <<>>

\* C8 witness: a call has returned after 16 pulses and one latch, the
\* register clock still high.
C8_Witness ==
  /\ w_pc = "ret"
  /\ Len(clocked) = 16
  /\ latches = 1
  /\ P2OUT = rck
  /\ w_args[1] = 255

\* C9: every buffer value a non-OFF iteration uses was written by the
\* conversion that same iteration triggered.
C9_SamplesAreFresh == ~stale

\* C10: no button press is lost, whenever it begins and however brief it
\* is; stated for the case the claim names: a press that begins and ends
\* while the controller is busy in the display dwell or in the buzzer
\* routine has been counted when it ends.
C10_NoPressLostWhileBusy == press # "lost_busy"

\* C11: a button read low at line 98 adds exactly one to the press counter
\* however long it is held: the counter changes in no other step, and while
\* the last read of the pin was low the controller stays in the wait of
\* lines 102-105, where it starts no conversion, reads no sample, leaves
\* the buzz counter, the buzzer and LED pins and the display lines alone,
\* and goes on only after a read of the pin gave high.
C11_HoldCountsOnce ==
  [][/\ button_ctr' # button_ctr =>
          /\ pc = "L98" /\ P2IN = 0
          /\ button_ctr' = (button_ctr + 1) % UINT_MOD
          /\ pc' = "L102" /\ button' = 0
     /\ (pc = "L102" /\ button = 0) =>
          /\ pc' = "L102"
          /\ button_ctr' = button_ctr
          /\ buzz_ctr' = buzz_ctr
          /\ P1OUT' = P1OUT /\ P2OUT' = P2OUT /\ shown' = shown
          /\ ~sampled' /\ ~bufRead' /\ ~fired'
          /\ adcBusy' => adcBusy
          /\ button' # 0 => P2IN = BUTTON_BIT
     /\ (pc = "L102" /\ pc' # "L102") => button # 0]_vars

\* C11 witness: the third counted press is being held in the wait loop,
\* the pin still low, with a reading above the threshold at the input.
C11_Witness ==
  /\ pc = "L102"
  /\ button = 0
  /\ P2IN = 0
  /\ press = "counted"
  /\ button_ctr = 3
  /\ sampled = FALSE
  /\ ain > RawPot

\* C12: every loop iteration calls the renderer exactly once, after its
\* buzz decision, and the mode alone picks the value: a POTENTIOMETER
\* iteration renders the potentiometer channel's voltage and makes no
\* threshold comparison (no buzz, counter untouched); a NORMAL iteration
\* renders the primary channel's voltage, with the counter already updated
\* and the buzzer silent again, whether the buzzer fired, was suppressed
\* or the counter was reset.
C12_RendersOncePerMode ==
  /\ renders <= 1
  /\ pc = "L195" => renders = 1
  /\ pc = "L98" => (renders = 1 \/ shown[4] = -1)
  /\ pc \notin {"L195", "L98"} => renders = 0
  /\ (pc = "L195" /\ Mode(button_ctr) = POTENTIOMETER) =>
       /\ number \in Voltage(reading_pot)
       /\ inj_d = Write4Digit(number)
       /\ ~fired
       /\ buzz_ctr = ctr_in
  /\ (pc = "L195" /\ Mode(button_ctr) = NORMAL) =>
       /\ number \in Voltage(reading)
       /\ inj_d = Write4Digit(number)
       /\ buzz_ctr = (IF reading > reading_pot
                        THEN (ctr_in + 1) % UINT_MOD ELSE 0)
       /\ BitAnd(P1OUT, 64) = 0

\* C12 witness: a POTENTIOMETER iteration is rendering the potentiometer's
\* voltage while the primary reading it took is above the threshold.
C12_Witness ==
  /\ pc = "L195"
  /\ Mode(button_ctr) = POTENTIOMETER
  /\ renders = 1
  /\ reading > reading_pot
  /\ reading_pot = RawPot
  /\ number \in Voltage(RawPot)
  /\ inj_d = Write4Digit(number)

\* C13: in millivolt mode, for every step count r in 0..1023 on either
\* channel, the integer write_4digit gets is floor(r * 296 / 100) and the
\* digits rendered are its decimal digits; step count 500 gives 1480 and
\* the digits (1, 4, 8, 0).
C13_MillivoltsTruncated ==
  (pc = "L195" /\ Mode(button_ctr) # OFF) =>
    LET r == IF Mode(button_ctr) = POTENTIOMETER THEN reading_pot
             ELSE reading
        v == (r * VOLTAGE_COEFF_X100) \div 100
    IN /\ number = v
       /\ inj_d = <<(v \div 1000) % 10, (v \div 100) % 10,
                    (v \div 10) % 10, v % 10>>
       /\ r = 500 => inj_d = <<1, 4, 8, 0>>

\* C13 witness: the primary channel read 500 steps, an exact product
\* (500 * 2.96 = 1480), and a NORMAL iteration renders 1, 4, 8, 0.
C13_Witness ==
  /\ pc = "L195"
  /\ Mode(button_ctr) = NORMAL
  /\ reading = 500
  /\ number = 1480
  /\ inj_d = <<1, 4, 8, 0>>
  /\ inj_i = DwellCount(WAIT_TIME)

\* C14: after a NORMAL iteration whose primary reading is at or below the
\* potentiometer reading the buzz counter is 0, whatever it was before
\* (below, at or above BUZZER_LIMIT), and a NORMAL iteration above the
\* threshold that starts from the counter at 0 fires the buzzer.
C14_ResetRearms ==
  /\ (Decided /\ Mode(button_ctr) = NORMAL /\ reading <= reading_pot) =>
       (buzz_ctr = 0 /\ ~fired)
  /\ (Decided /\ Mode(button_ctr) = NORMAL /\ reading > reading_pot
        /\ ctr_in = 0) =>
       (fired /\ buzz_ctr = 1)

\* C14 witness: the counter had run past BUZZER_LIMIT when a NORMAL
\* iteration read the primary at the threshold and cleared it.
C14_Witness ==
  /\ pc = "L195"
  /\ Mode(button_ctr) = NORMAL
  /\ bufRead
  /\ reading = reading_pot
  /\ ctr_in > BUZZER_LIMIT
  /\ buzz_ctr = 0

\* C15: over the whole range of the 16-bit press counter, the press that
\* takes it from 65535 back to 0 included, a pass of line 98 that reads the
\* pin low adds one modulo 2^16 and the mode after it is the cyclic
\* successor of the mode before it.
C15_CycleOverWholeRange ==
  [][(pc = "L98" /\ pc' = "L102" /\ P2IN = 0) =>
       /\ button_ctr' = (button_ctr + 1) % UINT_MOD
       /\ Mode(button_ctr') = (Mode(button_ctr) + 1) % 3]_vars

\* The data line (P2.0) and the two clock lines of port 2.
DataLine(v) == BitAnd(v, 1)
SckHigh(v) == BitAnd(v, sck) # 0
RckHigh(v) == BitAnd(v, rck) # 0

\* write_7seg has made the first write of a call (before the first write
\* of the first call P2OUT still holds its reset value).
Driven == w_pc \notin {"idle"} /\ ~(w_pc = "L213" /\ clocked = <<>>)

\* C16: for each of the 16 bits write_7seg clocks out, the data line holds
\* the bit's value with the shift clock low before the rising edge, holds
\* the same value while the shift clock is high (the value the register
\* takes), and the shift clock is low again when the next bit's data or the
\* latch is written: the data line changes only in steps that have the
\* shift clock low before and after.  Shift clock and register clock are
\* never high together.
C16_DataHeldAroundClock ==
  /\ [](/\ w_pc = "L215" => P2OUT = 0
        /\ w_pc = "L217" => P2OUT = sck
        /\ w_pc = "L226" => P2OUT = (IF w_index = 1 THEN 1 ELSE 0)
        /\ w_pc = "L228" => P2OUT = sck + (IF w_index = 1 THEN 1 ELSE 0)
        /\ w_pc = "L245" => P2OUT = BitOf(w_data, 0)
        /\ w_pc = "L247" => P2OUT = sck + BitOf(w_data, 0)
        /\ w_pc \in {"L217", "L228", "L247"} =>
             clocked[Len(clocked)] = DataLine(P2OUT)
        /\ (Driven /\ w_pc \in {"L213", "L223", "L242", "L252", "ret"}) =>
             ~SckHigh(P2OUT)
        /\ Driven => ~(SckHigh(P2OUT) /\ RckHigh(P2OUT)))
  /\ [][(Driven /\ DataLine(P2OUT') # DataLine(P2OUT)) =>
          (~SckHigh(P2OUT) /\ ~SckHigh(P2OUT'))]_vars

\* C16 witness: the twelfth bit, a 1 of the pattern, is on the data line
\* with the shift clock high, the register clock low.
C16_Witness ==
  /\ w_pc = "L247"
  /\ Len(clocked) = 12
  /\ clocked[12] = 1
  /\ P2OUT = sck + 1
  /\ BitOf(w_args[1], 3) = 1

\* floor(0.4 * d).
FourTenths(d) == (4 * d) \div 10

\* C17: an injection makes floor(0.4 * delay) passes for the delay its
\* caller passed, to write_4digit as to inject_7seg; write_4digit hands on
\* the thousands, hundreds, tens and units digits of its number; each pass
\* writes positions 4, 3, 2, 1 in this order, position 4 showing the table
\* entry of the first digit (thousands) and position 1 that of the last.
C17_PassesAndOrder ==
  /\ [][(pc = "L179" /\ pc' # pc) =>
          /\ inj_i' = FourTenths(delay_arg)
          /\ inj_d' = <<(number \div 1000) % 10, (number \div 100) % 10,
                        (number \div 10) % 10, number % 10>>]_vars
  /\ [][(pc = "L189" /\ pc' # pc) => inj_i' = FourTenths(delay_arg)]_vars
  /\ [][(pc = "L195" /\ shown' # shown) =>
          /\ shown' = [shown EXCEPT ![inj_pos] = index[inj_d[5 - inj_pos] + 1]]
          /\ inj_pos' = (IF inj_pos = 1 THEN 4 ELSE inj_pos - 1)
          /\ inj_i' = (IF inj_pos = 1 THEN inj_i - 1 ELSE inj_i)]_vars
  /\ [](pc = "L98" => inj_i = 0)

\* C18: if the button is always released again and every conversion
\* started comes to its end, the loop never halts: the wait for the button
\* (lines 102-105), the wait for the converter (line 113), the pulses of
\* buzz() and the dwell of inject_7seg all come to an end: from every
\* state the loop head is reached again and the display is rendered again.
C18_LoopRunsForever ==
  /\ []<>(pc = "L98")
  /\ []<>(pc = "L195")

\* C18 witness: after three counted presses, an iteration that ran the
\* buzzer is in the last pass of its rendering, its conversion still under
\* way.
C18_Witness ==
  /\ pc = "L195"
  /\ fired
  /\ press = "counted"
  /\ button_ctr = 3
  /\ adcBusy
  /\ inj_i = 1

\* C19: in millivolt mode, for every step count in 0..1023 on either
\* channel and in every mode, each of the four values inject_7seg uses to
\* index the 11-entry table is in 0..10: a digit 0..9 when a reading is
\* rendered, 10 (blank) in OFF mode and only there; every pattern written
\* is an entry of the table.
C19_TableIndexInBounds ==
  /\ pc = "L195" =>
       \A p \in 1..4 :
         /\ DigitAt(inj_d, p) \in 0..10
         /\ DigitAt(inj_d, p) = EMPTY_X <=> Mode(button_ctr) = OFF
  /\ \A p \in 1..4 : \E k \in 1..11 : shown[p] = index[k]

\* C19 witness: the largest step count, 1023, on the primary channel is
\* rendered as 3028 in NORMAL mode, the last pass under way.
C19_Witness ==
  /\ pc = "L195"
  /\ Mode(button_ctr) = NORMAL
  /\ reading = ADC_MAX
  /\ inj_d = <<3, 0, 2, 8>>
  /\ inj_i = 1
  /\ shown[4] = index[4]

\* C20: an iteration in OFF or POTENTIOMETER mode leaves the buzz counter
\* as it found it and does not fire the buzzer, also when the primary
\* reading a POTENTIOMETER iteration took is at or below the threshold; no
\* step taken in these modes changes the counter.  So a counter that
\* reached BUZZER_LIMIT is still there when the mode is NORMAL again, and
\* an iteration above the threshold then stays silent.
C20_CounterSurvivesModes ==
  /\ [](Mode(button_ctr) # NORMAL => (buzz_ctr = ctr_in /\ ~fired))
  /\ [][Mode(button_ctr) # NORMAL => buzz_ctr' = buzz_ctr]_vars
  /\ []((Decided /\ Mode(button_ctr) = NORMAL /\ reading > reading_pot
          /\ ctr_in >= BUZZER_LIMIT) => ~fired)

\* C20 witness: with the counter past its limit the mode was switched to
\* POTENTIOMETER; the iteration read the primary at the threshold and is
\* rendering, the counter as it was.
C20_Witness ==
  /\ pc = "L195"
  /\ Mode(button_ctr) = POTENTIOMETER
  /\ bufRead
  /\ reading = reading_pot
  /\ reading_pot = RawPot
  /\ ctr_in > BUZZER_LIMIT
  /\ buzz_ctr = ctr_in

====
